---- MODULE Spec2Model ----
(***************************************************************************)
(* Model of src/homework/homework.py: a script that loads two credit-card  *)
(* datasets, cleans them (limpiarDatos), fits a classifier, saves it,      *)
(* computes metrics and confusion matrices and writes them to a file.      *)
(*                                                                         *)
(* A DataFrame is [columns, categorical, rows]; each row keeps its pandas  *)
(* index label and a function from column name to value.  A Series is      *)
(* [name, rows] with rows [index, value].  A missing cell holds NaN.       *)
(***************************************************************************)
EXTENDS Integers, Sequences, FiniteSets, TLC

VARIABLES
    pc,                 \* position of the script (or of a harness)
    test, train,        \* the raw DataFrames read at lines 155-156
    cleaned,            \* the first value returned by limpiarDatos ("_")
    x_test, y_test, x_train, y_train,
    modelo_optimizado,  \* the fitted search object
    metrics_train, metrics_test, cm_metrics_train, cm_metrics_test,
    modelFile,          \* files/models/model.pkl.gz: the objects pickled in it
    metricsFile,        \* files/output/metrics.json, a sequence of lines
    runs,               \* executions of the script started so far
    log,                \* stages completed by the current execution
    prev                \* harness only: the records of the first invocation

vars == <<pc, test, train, cleaned, x_test, y_test, x_train, y_train,
          modelo_optimizado, metrics_train, metrics_test, cm_metrics_train,
          cm_metrics_test, modelFile, metricsFile, runs, log, prev>>

-----------------------------------------------------------------------------
(* Bounds of the model *)

MaxRows == 2        \* rows of a raw dataset in the cleaning harness
MaxEdu == 5         \* largest raw EDUCATION code
MaxMar == 1         \* largest raw MARRIAGE code
MaxTrain == 4       \* rows of the training split in the reporter harness
MaxTest == 1        \* rows of the test split in the reporter harness
MaxRuns == 2        \* executions of the script

-----------------------------------------------------------------------------
(* Values *)

NaN == -1           \* a missing cell; every real code is >= 0
None == "None"      \* a name not bound yet
Labels == {0, 1}

LabelColumn == "default payment next month"
RawColumns == <<"ID", "EDUCATION", "MARRIAGE", LabelColumn>>

RawRow(id, e, m, d) ==
    ("ID" :> id) @@ ("EDUCATION" :> e) @@ ("MARRIAGE" :> m) @@ (LabelColumn :> d)

\* raw records: every combination of codes, and records with one missing cell
CompleteRows ==
    { RawRow(1, e, m, d) : e \in 0..MaxEdu, m \in 0..MaxMar, d \in Labels }

MissingRows ==
    { [r EXCEPT ![c] = NaN] : r \in { RawRow(1, e, 1, 1) : e \in {0, MaxEdu} },
                              c \in {"ID", "EDUCATION", "MARRIAGE", LabelColumn} }

RawRowKinds == CompleteRows \cup MissingRows

\* read_csv gives the rows the default RangeIndex 0, 1, 2, ...
DataFrameOf(rowseq) ==
    [columns |-> RawColumns, categorical |-> {},
     rows |-> [i \in 1..Len(rowseq) |-> [index |-> i - 1, data |-> rowseq[i]]]]

-----------------------------------------------------------------------------
(* pandas operations used by limpiarDatos *)

SeqToSet(s) == { s[i] : i \in 1..Len(s) }

Restrict(f, S) == [c \in S |-> f[c]]

\* DataFrame.copy(): a new object with the same content
copy(df) == df

\* DataFrame.rename(columns={old: new})
rename(df, old, new) ==
    LET ren(c) == IF c = old THEN new ELSE c
        cols == [i \in 1..Len(df.columns) |-> ren(df.columns[i])]
        redata(r) == [c \in SeqToSet(cols) |->
                         IF c = new /\ old \in DOMAIN r THEN r[old] ELSE r[c]]
    IN [df EXCEPT !.columns = cols,
                  !.rows = [i \in 1..Len(df.rows) |->
                               [df.rows[i] EXCEPT !.data = redata(@)]]]

\* DataFrame.drop(columns=[c])
drop(df, c) ==
    LET keepCol(k) == k # c
        cols == SelectSeq(df.columns, keepCol)
    IN [df EXCEPT !.columns = cols,
                  !.rows = [i \in 1..Len(df.rows) |->
                               [df.rows[i] EXCEPT !.data = Restrict(@, SeqToSet(cols))]]]

\* DataFrame.dropna(): keeps the rows with no missing cell, index labels kept
dropna(df) ==
    LET complete(r) == \A c \in DOMAIN r.data : r.data[c] # NaN
    IN [df EXCEPT !.rows = SelectSeq(df.rows, complete)]

\* mutant: the two conditions joined with | instead of &
filterAvailableEither(df) ==
    LET available(r) == r.data["EDUCATION"] # 0 \/ r.data["MARRIAGE"] # 0
    IN [df EXCEPT !.rows = SelectSeq(df.rows, available)]

\* df[(df["EDUCATION"] != 0) & (df["MARRIAGE"] != 0)]
filterAvailable(df) ==
    LET available(r) == r.data["EDUCATION"] # 0 /\ r.data["MARRIAGE"] # 0
    IN [df EXCEPT !.rows = SelectSeq(df.rows, available)]

\* mutant: the grouping starts one code too early
groupOthersFrom3(x) == IF x >= 3 THEN 4 ELSE x

\* lambda x: 4 if x >= 4 else x
groupOthers(x) == IF x >= 4 THEN 4 ELSE x

\* df["EDUCATION"] = df["EDUCATION"].apply(...).astype("category")
recodeEducation(df) ==
    [df EXCEPT !.categorical = @ \cup {"EDUCATION"},
               !.rows = [i \in 1..Len(df.rows) |->
                            [df.rows[i] EXCEPT !.data["EDUCATION"] = groupOthers(@)]]]

\* df["default"]: a Series with the same index
column(df, c) ==
    [name |-> c,
     rows |-> [i \in 1..Len(df.rows) |->
                  [index |-> df.rows[i].index, value |-> df.rows[i].data[c]]]]

\* mutant: y is taken before the unavailable records are filtered out
limpiarDatosEarlyY(df) ==
    LET d4 == dropna(drop(rename(copy(df), LabelColumn, "default"), "ID"))
        d6 == recodeEducation(filterAvailable(d4))
    IN [arg |-> df, df |-> d6, x |-> drop(d6, "default"), y |-> column(d4, "default")]

\* mutant: no copy, and every step done in place on the caller's object
limpiarDatosInPlace(df) ==
    LET d4 == dropna(drop(rename(df, LabelColumn, "default"), "ID"))
        d6 == recodeEducation(filterAvailable(d4))
    IN [arg |-> d6, df |-> d6, x |-> drop(d6, "default"), y |-> column(d6, "default")]

(* limpiarDatos(df): the returned triple, and in "arg" the caller's object  *)
(* after the call.  Line 24 rebinds df to a copy and every later step       *)
(* builds a new object or assigns into that local one, so the caller's      *)
(* object is left as it was.                                                *)
limpiarDatos(df) ==
    LET d1 == copy(df)
        d2 == rename(d1, LabelColumn, "default")
        d3 == drop(d2, "ID")
        d4 == dropna(d3)
        d5 == filterAvailable(d4)
        d6 == recodeEducation(d5)
    IN [arg |-> df, df |-> d6, x |-> drop(d6, "default"), y |-> column(d6, "default")]

-----------------------------------------------------------------------------
(* The fitted model.  Its predict is a deterministic function of the       *)
(* feature row; the model lets it depend on the row's one-hot encoded      *)
(* EDUCATION category.  A forest only predicts classes it saw in y_train.  *)

EduCategories == 1..groupOthers(MaxEdu)

values(y) == [i \in 1..Len(y.rows) |-> y.rows[i].value]

Models(y) == [EduCategories -> SeqToSet(values(y))]

\* the encoder's input validation rejects a table with no rows
predictRaises(x) == Len(x.rows) = 0

predict(model, x) == [i \in 1..Len(x.rows) |-> model[x.rows[i].data["EDUCATION"]]]

-----------------------------------------------------------------------------
(* sklearn.metrics, on two equally long label sequences *)

count(y_true, y_pred, t, p) ==
    Cardinality({ i \in 1..Len(y_true) : y_true[i] = t /\ y_pred[i] = p })

RECURSIVE gcd(_, _)
gcd(a, b) == IF b = 0 THEN a ELSE gcd(b, a % b)

\* mutant: a zero denominator gives NaN (0/0) instead of 0
quotientNaN(n, d) ==
    IF d = 0 THEN <<0, 0>>
    ELSE IF n = 0 THEN <<0, 1>> ELSE <<n \div gcd(n, d), d \div gcd(n, d)>>

\* a quotient as a fraction in lowest terms; zero_division=0 when d = 0
quotient(n, d) == IF d = 0 \/ n = 0 THEN <<0, 1>> ELSE <<n \div gcd(n, d), d \div gcd(n, d)>>

mean2(p, q) == quotient(p[1] * q[2] + q[1] * p[2], 2 * p[2] * q[2])

precision_score(y_true, y_pred) ==
    LET tp == count(y_true, y_pred, 1, 1)
        fp == count(y_true, y_pred, 0, 1)
    IN quotient(tp, tp + fp)

recall_score(y_true, y_pred) ==
    LET tp == count(y_true, y_pred, 1, 1)
        fn == count(y_true, y_pred, 1, 0)
    IN quotient(tp, tp + fn)

f1_score(y_true, y_pred) ==
    LET tp == count(y_true, y_pred, 1, 1)
        fp == count(y_true, y_pred, 0, 1)
        fn == count(y_true, y_pred, 1, 0)
    IN quotient(2 * tp, 2 * tp + fp + fn)

\* the mean, over the classes present in y_true, of the class's recall
balanced_accuracy_score(y_true, y_pred) ==
    LET present == SeqToSet(y_true)
        rec(c) == quotient(count(y_true, y_pred, c, c),
                           count(y_true, y_pred, c, 0) + count(y_true, y_pred, c, 1))
    IN IF present = Labels THEN mean2(rec(0), rec(1))
       ELSE rec(CHOOSE c \in present : TRUE)

\* confusion_matrix(y_true, y_pred) with no labels argument: one row and one
\* column per label that occurs in y_true or y_pred, in sorted order
confusion_matrix(y_true, y_pred) ==
    LET present == SeqToSet(y_true) \cup SeqToSet(y_pred)
        n == Cardinality(present)
        label(i) == IF present = {1} THEN 1 ELSE i
    IN [shape |-> n,
        cells |-> [ij \in (0..(n - 1)) \X (0..(n - 1)) |->
                      count(y_true, y_pred, label(ij[1]), label(ij[2]))]]

\* cm[i, j] raises IndexError outside the matrix
indexRaises(cm, i, j) == i >= cm.shape \/ j >= cm.shape

-----------------------------------------------------------------------------
(* The Metrics Reporter *)

metricsRecord(dataset, y_true, y_pred) ==
    [type |-> "metrics", dataset |-> dataset,
     precision |-> precision_score(y_true, y_pred),
     balanced_accuracy |-> balanced_accuracy_score(y_true, y_pred),
     recall |-> recall_score(y_true, y_pred),
     f1_score |-> f1_score(y_true, y_pred)]

metricas(model, xtr, ytr, xte, yte) ==
    IF predictRaises(xtr) \/ predictRaises(xte)
    THEN [raised |-> TRUE]
    ELSE [raised |-> FALSE,
          train |-> metricsRecord("train", values(ytr), predict(model, xtr)),
          test |-> metricsRecord("test", values(yte), predict(model, xte))]

cmRecord(dataset, cm) ==
    [type |-> "cm_matrix", dataset |-> dataset,
     true_0 |-> [predicted_0 |-> cm.cells[<<0, 0>>], predicted_1 |-> cm.cells[<<0, 1>>]],
     true_1 |-> [predicted_0 |-> cm.cells[<<1, 0>>], predicted_1 |-> cm.cells[<<1, 1>>]]]

matrizConfusion(model, xtr, ytr, xte, yte) ==
    IF predictRaises(xtr) \/ predictRaises(xte)
    THEN [raised |-> TRUE]
    ELSE LET cm_train == confusion_matrix(values(ytr), predict(model, xtr))
             cm_test == confusion_matrix(values(yte), predict(model, xte))
         IN IF indexRaises(cm_train, 1, 1) \/ indexRaises(cm_test, 1, 1)
            THEN [raised |-> TRUE]
            ELSE [raised |-> FALSE,
                  train |-> cmRecord("train", cm_train),
                  test |-> cmRecord("test", cm_test)]

\* gzip.open(..., "wb") and pickle.dump(model, file): the file holds the model
guardar(model) == <<[pickle |-> model]>>

\* json.dumps(d) + "\n": one line of text holding one object
jsonLine(d) == [json |-> d]

\* mutant: the file is opened with "a"
guardarMetricasAppend(mtr, mte, cmtr, cmte, old) ==
    old \o <<jsonLine(mtr), jsonLine(mte), jsonLine(cmtr), jsonLine(cmte)>>

\* open(file_path, "w") truncates; then one line per record, in list order
guardarMetricas(mtr, mte, cmtr, cmte, old) ==
    LET metricas_totales == <<mtr, mte, cmtr, cmte>>
    IN [i \in 1..Len(metricas_totales) |-> jsonLine(metricas_totales[i])]

-----------------------------------------------------------------------------
(* The script, lines 155-174: one action per statement.  An exception at   *)
(* module level ends the process: pc becomes "aborted".                    *)

StageOrder ==
    <<"read_test", "read_train", "limpiar_test", "limpiar_train", "entrenar",
      "guardar", "metricas", "matrizConfusion", "guardarMetricas">>

\* contents the two input files may have: both classes, one class with a
\* record to drop, only records that are dropped
InputFiles ==
    { DataFrameOf(<<RawRow(1, 2, 1, 0), RawRow(2, MaxEdu, 1, 1)>>),
      DataFrameOf(<<RawRow(1, 0, 1, 1), RawRow(2, 3, 1, 0)>>),
      DataFrameOf(<<RawRow(1, NaN, 1, 0), RawRow(2, 1, 0, 1)>>) }

\* what files/output/metrics.json may hold before the first execution
StaleLine == [json |-> [type |-> "stale"]]
StaleContents == { <<>>, <<StaleLine>>, <<StaleLine, StaleLine, StaleLine, StaleLine, StaleLine>> }

Abort ==
    /\ pc' = "aborted"
    /\ UNCHANGED <<test, train, cleaned, x_test, y_test, x_train, y_train,
                   modelo_optimizado, metrics_train, metrics_test,
                   cm_metrics_train, cm_metrics_test, runs, log, prev>>

Done(stage, next) ==
    /\ pc' = next
    /\ log' = Append(log, stage)
    /\ UNCHANGED <<runs, prev>>

\* line 155; a missing or malformed file raises
ReadTest ==
    /\ pc = "read_test"
    /\ \/ /\ \E d \in InputFiles : test' = d
          /\ Done("read_test", "read_train")
          /\ UNCHANGED <<train, cleaned, x_test, y_test, x_train, y_train,
                         modelo_optimizado, metrics_train, metrics_test,
                         cm_metrics_train, cm_metrics_test, modelFile, metricsFile>>
       \/ Abort /\ UNCHANGED <<modelFile, metricsFile>>

\* line 156
ReadTrain ==
    /\ pc = "read_train"
    /\ \/ /\ \E d \in InputFiles : train' = d
          /\ Done("read_train", "limpiar_test")
          /\ UNCHANGED <<test, cleaned, x_test, y_test, x_train, y_train,
                         modelo_optimizado, metrics_train, metrics_test,
                         cm_metrics_train, cm_metrics_test, modelFile, metricsFile>>
       \/ Abort /\ UNCHANGED <<modelFile, metricsFile>>

\* line 159: _, x_test, y_test = limpiarDatos(test)
LimpiarTest ==
    /\ pc = "limpiar_test"
    /\ LET r == limpiarDatos(test)
       IN /\ test' = r.arg
          /\ cleaned' = r.df
          /\ x_test' = r.x
          /\ y_test' = r.y
    /\ Done("limpiar_test", "limpiar_train")
    /\ UNCHANGED <<train, x_train, y_train, modelo_optimizado, metrics_train,
                   metrics_test, cm_metrics_train, cm_metrics_test, modelFile,
                   metricsFile>>

\* line 160: _, x_train, y_train = limpiarDatos(train)
LimpiarTrain ==
    /\ pc = "limpiar_train"
    /\ LET r == limpiarDatos(train)
       IN /\ train' = r.arg
          /\ cleaned' = r.df
          /\ x_train' = r.x
          /\ y_train' = r.y
    /\ Done("limpiar_train", "entrenar")
    /\ UNCHANGED <<test, x_test, y_test, modelo_optimizado, metrics_train,
                   metrics_test, cm_metrics_train, cm_metrics_test, modelFile,
                   metricsFile>>

\* lines 163-164: the search fits some model, or raises (always on an empty
\* training table)
Entrenar ==
    /\ pc = "entrenar"
    /\ \/ /\ Len(x_train.rows) > 0
          /\ \E m \in Models(y_train) : modelo_optimizado' = m
          /\ Done("entrenar", "guardar")
          /\ UNCHANGED <<test, train, cleaned, x_test, y_test, x_train, y_train,
                         metrics_train, metrics_test, cm_metrics_train,
                         cm_metrics_test, modelFile, metricsFile>>
       \/ Abort /\ UNCHANGED <<modelFile, metricsFile>>

\* mutant: a failed write of the model is swallowed and the script goes on
GuardarSwallowsError ==
    /\ pc = "guardar"
    /\ pc' = "metricas"
    /\ \/ /\ modelFile' = guardar(modelo_optimizado)
          /\ log' = Append(log, "guardar")
       \/ UNCHANGED <<modelFile, log>>
    /\ UNCHANGED <<test, train, cleaned, x_test, y_test, x_train, y_train,
                   modelo_optimizado, metrics_train, metrics_test,
                   cm_metrics_train, cm_metrics_test, metricsFile, runs, prev>>

\* line 167: guardar(modelo_optimizado); makedirs or gzip.open may fail and
\* leave the file as it was, the dump may fail after the file was truncated
Guardar ==
    /\ pc = "guardar"
    /\ \/ /\ modelFile' = guardar(modelo_optimizado)
          /\ Done("guardar", "metricas")
          /\ UNCHANGED <<test, train, cleaned, x_test, y_test, x_train, y_train,
                         modelo_optimizado, metrics_train, metrics_test,
                         cm_metrics_train, cm_metrics_test, metricsFile>>
       \/ Abort /\ modelFile' \in {modelFile, <<>>} /\ UNCHANGED metricsFile

\* mutant: the reporter overwrites the test labels with its predictions
MetricasAltersLabels ==
    /\ pc = "metricas"
    /\ LET r == metricas(modelo_optimizado, x_train, y_train, x_test, y_test)
       IN \/ /\ ~r.raised
             /\ metrics_train' = r.train
             /\ metrics_test' = r.test
             /\ y_test' = [y_test EXCEPT !.rows =
                              [i \in 1..Len(y_test.rows) |->
                                  [y_test.rows[i] EXCEPT
                                      !.value = predict(modelo_optimizado, x_test)[i]]]]
             /\ Done("metricas", "matrizConfusion")
             /\ UNCHANGED <<test, train, cleaned, x_test, x_train, y_train,
                            modelo_optimizado, cm_metrics_train, cm_metrics_test,
                            modelFile, metricsFile>>
          \/ r.raised /\ Abort /\ UNCHANGED <<modelFile, metricsFile>>

\* line 170
Metricas ==
    /\ pc = "metricas"
    /\ LET r == metricas(modelo_optimizado, x_train, y_train, x_test, y_test)
       IN \/ /\ ~r.raised
             /\ metrics_train' = r.train
             /\ metrics_test' = r.test
             /\ Done("metricas", "matrizConfusion")
             /\ UNCHANGED <<test, train, cleaned, x_test, y_test, x_train, y_train,
                            modelo_optimizado, cm_metrics_train, cm_metrics_test,
                            modelFile, metricsFile>>
          \/ r.raised /\ Abort /\ UNCHANGED <<modelFile, metricsFile>>

\* line 171
MatrizConfusion ==
    /\ pc = "matrizConfusion"
    /\ LET r == matrizConfusion(modelo_optimizado, x_train, y_train, x_test, y_test)
       IN \/ /\ ~r.raised
             /\ cm_metrics_train' = r.train
             /\ cm_metrics_test' = r.test
             /\ Done("matrizConfusion", "guardarMetricas")
             /\ UNCHANGED <<test, train, cleaned, x_test, y_test, x_train, y_train,
                            modelo_optimizado, metrics_train, metrics_test,
                            modelFile, metricsFile>>
          \/ r.raised /\ Abort /\ UNCHANGED <<modelFile, metricsFile>>

\* line 174; makedirs or open may fail and leave the file as it was, a write
\* may fail after the file was truncated and some of the lines were written
GuardarMetricas ==
    /\ pc = "guardarMetricas"
    /\ LET written == guardarMetricas(metrics_train, metrics_test,
                                      cm_metrics_train, cm_metrics_test,
                                      metricsFile)
       IN \/ /\ metricsFile' = written
             /\ Done("guardarMetricas", "done")
             /\ UNCHANGED <<test, train, cleaned, x_test, y_test, x_train, y_train,
                            modelo_optimizado, metrics_train, metrics_test,
                            cm_metrics_train, cm_metrics_test, modelFile>>
          \/ /\ Abort
             /\ \/ metricsFile' = metricsFile
                \/ \E k \in 0..3 : metricsFile' = SubSeq(written, 1, k)
             /\ UNCHANGED modelFile

\* the script is run again: a new process, the files are what is left
Rerun ==
    /\ pc \in {"done", "aborted"}
    /\ runs < MaxRuns
    /\ runs' = runs + 1
    /\ pc' = "read_test"
    /\ log' = <<>>
    /\ test' = None /\ train' = None /\ cleaned' = None
    /\ x_test' = None /\ y_test' = None /\ x_train' = None /\ y_train' = None
    /\ modelo_optimizado' = None
    /\ metrics_train' = None /\ metrics_test' = None
    /\ cm_metrics_train' = None /\ cm_metrics_test' = None
    /\ UNCHANGED <<modelFile, metricsFile, prev>>

Init ==
    /\ pc = "read_test"
    /\ runs = 1
    /\ log = <<>>
    /\ test = None /\ train = None /\ cleaned = None
    /\ x_test = None /\ y_test = None /\ x_train = None /\ y_train = None
    /\ modelo_optimizado = None
    /\ metrics_train = None /\ metrics_test = None
    /\ cm_metrics_train = None /\ cm_metrics_test = None
    /\ modelFile = <<>>
    /\ metricsFile \in StaleContents
    /\ prev = [invoked |-> FALSE]

Next ==
    \/ ReadTest
    \/ ReadTrain
    \/ LimpiarTest
    \/ LimpiarTrain
    \/ Entrenar
    \/ Guardar
    \/ Metricas
    \/ MatrizConfusion
    \/ GuardarMetricas
    \/ Rerun

Spec == Init /\ [][Next]_vars

-----------------------------------------------------------------------------
(* Cleaning harness: lines 159-160 applied to every raw dataset of up to   *)
(* MaxRows rows, as one of the two inputs; the other one has no rows.      *)

InitClean ==
    /\ pc = "limpiar_test"
    /\ runs = 1
    /\ log = <<"read_test", "read_train">>
    /\ \E k \in 0..MaxRows : \E f \in [1..k -> RawRowKinds] :
          \/ test = DataFrameOf(f) /\ train = DataFrameOf(<<>>)
          \/ test = DataFrameOf(<<>>) /\ train = DataFrameOf(f)
    /\ cleaned = None
    /\ x_test = None /\ y_test = None /\ x_train = None /\ y_train = None
    /\ modelo_optimizado = None
    /\ metrics_train = None /\ metrics_test = None
    /\ cm_metrics_train = None /\ cm_metrics_test = None
    /\ modelFile = <<>>
    /\ metricsFile = <<>>
    /\ prev = [invoked |-> FALSE]

NextClean ==
    \/ LimpiarTest
    \/ LimpiarTrain

SpecClean == InitClean /\ [][NextClean]_vars

-----------------------------------------------------------------------------
(* Reporter harness: lines 170-171 executed twice on every pair of cleaned *)
(* splits (up to MaxTrain training rows, up to MaxTest test rows) and   *)
(* every model fitted on the training split.                               *)

\* cleaned splits come out of limpiarDatos; the records use the lowest
\* category and the grouped one
SplitRows == { RawRow(1, e, 1, d) : e \in {1, MaxEdu}, d \in Labels }

\* models that treat categories 2 and 3 like their neighbours 1 and 4
HarnessModels(y) == { m \in Models(y) : m[2] = m[1] /\ m[3] = m[4] }

Invocation ==
    [invoked |-> TRUE,
     metrics_train |-> metrics_train, metrics_test |-> metrics_test,
     cm_metrics_train |-> cm_metrics_train, cm_metrics_test |-> cm_metrics_test]

InitReporter ==
    /\ pc = "metricas"
    /\ runs = 1
    /\ log = SubSeq(StageOrder, 1, 6)
    /\ \E n \in 1..MaxTrain, k \in 0..MaxTest :
       \E f \in [1..n -> SplitRows], g \in [1..k -> SplitRows] :
          /\ train = DataFrameOf(f)
          /\ test = DataFrameOf(g)
    /\ cleaned = limpiarDatos(train).df
    /\ x_test = limpiarDatos(test).x
    /\ y_test = limpiarDatos(test).y
    /\ x_train = limpiarDatos(train).x
    /\ y_train = limpiarDatos(train).y
    /\ modelo_optimizado \in HarnessModels(y_train)
    /\ metrics_train = None /\ metrics_test = None
    /\ cm_metrics_train = None /\ cm_metrics_test = None
    /\ modelFile = <<[pickle |-> modelo_optimizado]>>
    /\ metricsFile = <<>>
    /\ prev = [invoked |-> FALSE]

\* the reporter is invoked a second time on the same model and splits
Reinvoke ==
    /\ pc = "guardarMetricas"
    /\ ~prev.invoked
    /\ prev' = Invocation
    /\ pc' = "metricas"
    /\ UNCHANGED <<test, train, cleaned, x_test, y_test, x_train, y_train,
                   modelo_optimizado, metrics_train, metrics_test,
                   cm_metrics_train, cm_metrics_test, modelFile, metricsFile,
                   runs, log>>

NextReporter ==
    \/ Metricas
    \/ MatrizConfusion
    \/ Reinvoke

SpecReporter == InitReporter /\ [][NextReporter]_vars

-----------------------------------------------------------------------------
(* Properties of limpiarDatos, checked under SpecClean *)

LogSet == SeqToSet(log)
TestCleaned == "limpiar_test" \in LogSet
TrainCleaned == "limpiar_train" \in LogSet

Indices(rows) == { rows[i].index : i \in 1..Len(rows) }

\* the input record a cleaned record came from: read_csv numbered them 0, 1, ...
Origin(raw, r) == raw.rows[r.index + 1]

CompleteIn(r, cols) == \A c \in cols : r.data[c] # NaN
IsAvailable(r) == r.data["EDUCATION"] # 0 /\ r.data["MARRIAGE"] # 0

KeptAllColumns(raw) ==
    { r.index : r \in { q \in SeqToSet(raw.rows) :
                          CompleteIn(q, SeqToSet(raw.columns)) /\ IsAvailable(q) } }

KeptButID(raw) ==
    { r.index : r \in { q \in SeqToSet(raw.rows) :
                          CompleteIn(q, SeqToSet(raw.columns) \ {"ID"}) /\ IsAvailable(q) } }

RowsAre(rows, kept) == Indices(rows) = kept /\ Len(rows) = Cardinality(kept)

\* C1 as stated: the cleaned rows are exactly the input rows with no missing
\* value in any column, EDUCATION # 0 and MARRIAGE # 0.
C1_AsStated ==
    /\ TestCleaned => RowsAre(x_test.rows, KeptAllColumns(test))
    /\ TrainCleaned => RowsAre(x_train.rows, KeptAllColumns(train))

\* C1 amended: the cleaned rows (of the cleaned dataset, of X and of y) are
\* exactly the input rows with no missing value in any column other than ID,
\* EDUCATION # 0 and MARRIAGE # 0.
C1_SurvivorsExact ==
    /\ TestCleaned =>
          /\ RowsAre(x_test.rows, KeptButID(test))
          /\ RowsAre(y_test.rows, KeptButID(test))
          /\ (~TrainCleaned => RowsAre(cleaned.rows, KeptButID(test)))
    /\ TrainCleaned =>
          /\ RowsAre(x_train.rows, KeptButID(train))
          /\ RowsAre(y_train.rows, KeptButID(train))
          /\ RowsAre(cleaned.rows, KeptButID(train))

\* a record with EDUCATION = 0 was dropped and one with a missing ID survived
C1_Witness ==
    /\ TestCleaned
    /\ Len(test.rows) = 2 /\ Len(x_test.rows) = 1
    /\ \E r \in SeqToSet(test.rows) : r.data["EDUCATION"] = 0 /\ r.data["ID"] # NaN
    /\ Origin(test, x_test.rows[1]).data["ID"] = NaN

Recoded(raw, out) ==
    \A i \in 1..Len(out.rows) :
        LET now == out.rows[i].data["EDUCATION"]
            was == Origin(raw, out.rows[i]).data["EDUCATION"]
        IN /\ was >= 4 => now = 4
           /\ was \in 1..3 => now = was
           /\ now <= 4 /\ now # 0

\* C2: a surviving row's EDUCATION is 4 if the input code was >= 4 and the
\* input code itself if it was 1, 2 or 3; no cleaned value is 0 or above 4.
C2_EducationRecoded ==
    /\ TestCleaned => Recoded(test, x_test)
    /\ TrainCleaned => Recoded(train, x_train) /\ Recoded(train, cleaned)

\* one record above 4 was grouped into 4 next to one with code 3 left alone
C2_Witness ==
    /\ TrainCleaned
    /\ Len(x_train.rows) = 2
    /\ Origin(train, x_train.rows[1]).data["EDUCATION"] = MaxEdu
    /\ x_train.rows[1].data["EDUCATION"] = 4
    /\ Origin(train, x_train.rows[2]).data["EDUCATION"] = 3
    /\ x_train.rows[2].data["EDUCATION"] = 3

Increasing(rows) == \A i, j \in 1..Len(rows) : i < j => rows[i].index < rows[j].index

Aligned(raw, df, x, y) ==
    /\ Len(x.rows) = Len(df.rows) /\ Len(y.rows) = Len(df.rows)
    /\ "default" \notin SeqToSet(x.columns)
    /\ \A i \in 1..Len(df.rows) :
          /\ x.rows[i].index = df.rows[i].index
          /\ y.rows[i].index = df.rows[i].index
          /\ x.rows[i].data = Restrict(df.rows[i].data, SeqToSet(x.columns))
          /\ x.rows[i].data["MARRIAGE"] = Origin(raw, df.rows[i]).data["MARRIAGE"]
          /\ y.rows[i].value = Origin(raw, df.rows[i]).data[LabelColumn]
    /\ Increasing(df.rows)

\* C3: the three outputs have the same number of rows, row i of X and entry i
\* of y come from the same input row (its features, its label), and the
\* surviving rows keep the input's relative order.
C3_OutputsAligned ==
    /\ (TestCleaned /\ ~TrainCleaned) => Aligned(test, cleaned, x_test, y_test)
    /\ TestCleaned => /\ Len(x_test.rows) = Len(y_test.rows)
                      /\ \A i \in 1..Len(x_test.rows) :
                            /\ x_test.rows[i].index = y_test.rows[i].index
                            /\ y_test.rows[i].value =
                                  Origin(test, x_test.rows[i]).data[LabelColumn]
                      /\ Increasing(x_test.rows)
    /\ TrainCleaned => Aligned(train, cleaned, x_train, y_train)

\* both records survive, with different labels
C3_Witness ==
    /\ TestCleaned /\ ~TrainCleaned
    /\ Len(test.rows) = 2 /\ Len(x_test.rows) = 2
    /\ y_test.rows[1].value = 1 /\ y_test.rows[2].value = 0

-----------------------------------------------------------------------------
(* Properties of the Metrics Reporter, checked under SpecReporter *)

Last(q) == q[Len(q)]

\* metricas returned / matrizConfusion returned, in the current state
MetricsReturned ==
    \/ pc \in {"matrizConfusion", "guardarMetricas", "done"}
    \/ pc = "aborted" /\ Last(log) \in {"metricas", "matrizConfusion"}
CmReturned ==
    \/ pc \in {"guardarMetricas", "done"}
    \/ pc = "aborted" /\ Last(log) = "matrizConfusion"
\* matrizConfusion was called and raised
CmRaised == pc = "aborted" /\ Last(log) = "metricas"
\* metricas was called and raised
MetricsRaised == pc = "aborted" /\ Last(log) = "guardar"

Pred(x) == predict(modelo_optimizado, x)

CellSum(r) ==
    r.true_0.predicted_0 + r.true_0.predicted_1 + r.true_1.predicted_0 + r.true_1.predicted_1

\* C4 as stated: for every split and every combination of true and predicted
\* labels, one class only included, matrizConfusion produces a record whose
\* four cells sum to the number of rows of the split.
C4_CellsSumToRows ==
    /\ ~CmRaised
    /\ CmReturned => /\ CellSum(cm_metrics_train) = Len(y_train.rows)
                     /\ CellSum(cm_metrics_test) = Len(y_test.rows)

AllZero(q) == \A i \in 1..Len(q) : q[i] = 0

ZeroScores(r) == r.precision = <<0, 1>> /\ r.recall = <<0, 1>> /\ r.f1_score = <<0, 1>>

\* C5: when the predictions for a split are all 0, metricas raises nothing and
\* the split's record has precision = recall = f1_score = 0, with or without
\* positives among the true labels.  (metricas raises only when predict does,
\* on a split with no rows.)
C5_ZeroWhenNoPositivePrediction ==
    /\ MetricsRaised => (Len(x_train.rows) = 0 \/ Len(x_test.rows) = 0)
    /\ MetricsReturned =>
          /\ AllZero(Pred(x_train)) => ZeroScores(metrics_train)
          /\ AllZero(Pred(x_test)) => ZeroScores(metrics_test)

\* all-zero predictions on a training split that has positives, and on a test
\* split that has none
C5_Witness ==
    /\ MetricsReturned
    /\ AllZero(Pred(x_train)) /\ 1 \in SeqToSet(values(y_train))
    /\ AllZero(Pred(x_test)) /\ values(y_test) = <<0>>
    /\ ZeroScores(metrics_train) /\ ZeroScores(metrics_test)

Positions(y, p, t, q) == { i \in 1..Len(y) : y[i] = t /\ p[i] = q }

CellsCount(r, y, p) ==
    /\ r.true_0.predicted_0 = Cardinality(Positions(y, p, 0, 0))
    /\ r.true_0.predicted_1 = Cardinality(Positions(y, p, 0, 1))
    /\ r.true_1.predicted_0 = Cardinality(Positions(y, p, 1, 0))
    /\ r.true_1.predicted_1 = Cardinality(Positions(y, p, 1, 1))

\* q is the fraction n / d
IsRatio(q, n, d) == q[2] # 0 /\ q[1] * d = n * q[2]

RatiosHold(m, y, p) ==
    LET tp == Cardinality(Positions(y, p, 1, 1))
        fp == Cardinality(Positions(y, p, 0, 1))
        fn == Cardinality(Positions(y, p, 1, 0))
    IN /\ tp + fp # 0 => IsRatio(m.precision, tp, tp + fp)
       /\ tp + fn # 0 => IsRatio(m.recall, tp, tp + fn)

\* C7 as stated: for every pair of equally long label sequences there is a
\* confusion-matrix record whose cell true_i.predicted_j counts the positions
\* with true label i and predicted label j, and precision and recall are the
\* ratios of those cells when the denominators are not zero.
C7_CellsAndRatios ==
    /\ ~CmRaised
    /\ CmReturned => /\ CellsCount(cm_metrics_train, values(y_train), Pred(x_train))
                     /\ CellsCount(cm_metrics_test, values(y_test), Pred(x_test))
    /\ MetricsReturned => /\ RatiosHold(metrics_train, values(y_train), Pred(x_train))
                          /\ RatiosHold(metrics_test, values(y_test), Pred(x_test))

\* what does hold: every record that is produced has the right cells and
\* ratios (the spec's example y_true=[1,0,1,0], y_pred=[1,0,0,0] included)
CellsAndRatiosWhenReturned ==
    /\ CmReturned => /\ CellsCount(cm_metrics_train, values(y_train), Pred(x_train))
                     /\ CellsCount(cm_metrics_test, values(y_test), Pred(x_test))
                     /\ CellSum(cm_metrics_train) = Len(y_train.rows)
                     /\ CellSum(cm_metrics_test) = Len(y_test.rows)
    /\ MetricsReturned => /\ RatiosHold(metrics_train, values(y_train), Pred(x_train))
                          /\ RatiosHold(metrics_test, values(y_test), Pred(x_test))

ExampleReached ==
    /\ CmReturned
    /\ values(y_train) = <<1, 0, 1, 0>> /\ Pred(x_train) = <<1, 0, 0, 0>>
    /\ cm_metrics_train.true_0 = [predicted_0 |-> 2, predicted_1 |-> 0]
    /\ cm_metrics_train.true_1 = [predicted_0 |-> 1, predicted_1 |-> 1]
    /\ metrics_train.precision = <<1, 1>> /\ metrics_train.recall = <<1, 2>>

ReporterFrame ==
    pc \in {"metricas", "matrizConfusion"} =>
        UNCHANGED <<modelo_optimizado, x_train, y_train, x_test, y_test>>

-----------------------------------------------------------------------------
(* Properties of the whole script, checked under Spec *)

IsPrefix(p, q) == Len(p) <= Len(q) /\ \A i \in 1..Len(p) : p[i] = q[i]

FourRecordsInOrder(f) ==
    /\ Len(f) = 4
    /\ \A i \in 1..4 : f[i] # StaleLine
    /\ f[1].json.type = "metrics" /\ f[1].json.dataset = "train"
    /\ f[2].json.type = "metrics" /\ f[2].json.dataset = "test"
    /\ f[3].json.type = "cm_matrix" /\ f[3].json.dataset = "train"
    /\ f[4].json.type = "cm_matrix" /\ f[4].json.dataset = "test"

\* C6: after a completed run, whatever the file held before, the metrics file
\* holds exactly four lines, one object each, in the order train-metrics,
\* test-metrics, train-confusion, test-confusion: this run's records.
C6_FourLinesAfterRun ==
    pc = "done" =>
        /\ FourRecordsInOrder(metricsFile)
        /\ metricsFile = <<jsonLine(metrics_train), jsonLine(metrics_test),
                           jsonLine(cm_metrics_train), jsonLine(cm_metrics_test)>>

\* a later execution completed over whatever the earlier one left
C6_Witness ==
    /\ pc = "done"
    /\ runs > 1
    /\ Len(metricsFile) = 4

C10_State ==
    /\ IsPrefix(log, StageOrder)
    /\ pc \notin {"done", "aborted"} => pc = StageOrder[Len(log) + 1]
    /\ pc = "done" => /\ log = StageOrder
                      /\ modelFile = <<[pickle |-> modelo_optimizado]>>
                      /\ FourRecordsInOrder(metricsFile)
    /\ "guardar" \in LogSet => modelFile = <<[pickle |-> modelo_optimizado]>>

C10_Step ==
    \* a stage runs once and is followed by the next one, or the run aborts
    /\ pc \notin {"done", "aborted"} =>
          \/ pc' = "aborted" /\ log' = log
          \/ log' = Append(log, pc) /\ pc' # "aborted"
    \* no retry and no later stage after an abort or the end: only a new run
    /\ pc \in {"done", "aborted"} =>
          /\ runs' = runs + 1 /\ log' = <<>> /\ pc' = "read_test"
          /\ UNCHANGED <<modelFile, metricsFile>>
    \* the files are written by their own stages, the metrics file only in a
    \* run that has written the model file
    /\ modelFile' # modelFile => pc = "guardar"
    /\ metricsFile' # metricsFile => pc = "guardarMetricas" /\ "guardar" \in LogSet

\* C10: a run executes its stages at most once each in the fixed order; a
\* failure aborts it at once, with no retry and no later stage; it completes
\* with both files written or aborts; the metrics file is never written in
\* a run that has not written the model file.
C10_LinearRun == []C10_State /\ [][C10_Step]_vars

\* a run aborted in matrizConfusion: the model file is written, the metrics
\* file is not
C10_Witness ==
    /\ pc = "aborted"
    /\ log = SubSeq(StageOrder, 1, 7)
    /\ modelFile = <<[pickle |-> modelo_optimizado]>>
    /\ metricsFile \in StaleContents

====
